---- MODULE Spec2Model ----
(***************************************************************************)
(* JSpect: the analysis orchestration layer (jspect/ai/manager.py) with    *)
(* its two judgment providers (claude_analyzer.py, gemini_analyzer.py).    *)
(*                                                                         *)
(* Python dicts are modelled as functions on a set of string keys, so      *)
(* that d.get(k, default) and {**a, **b} keep their meaning.  Time is a    *)
(* clock counted in hours.                                                 *)
(***************************************************************************)
EXTENDS Integers, Sequences, FiniteSets, TLC

VARIABLES
    providers,  \* AIManager.providers: the identifiers of the registered providers
    cache,      \* AIManager.cache: cache key -> <<cached_time, result>>
    now,        \* datetime.now(), in hours
    calls,      \* number of analyze_secret calls made so far
    last,       \* observation of the most recent call of the manager
    hist        \* per cache key, the most recent cache-enabled analyze_secret

vars == <<providers, cache, now, calls, last, hist>>

----------------------------------------------------------------------------
(* Bounds of the model *)

\* the clock runs up to MaxHalfDays steps of 12 hours
MaxHalfDays == 2
MaxTime == 12 * MaxHalfDays
MaxCalls == 3
TickSteps == {12, 24}
\* the longest list of findings given to analyze_batch
MaxBatchLen == 2
\* the longest text given to detect_secrets
MaxContentLen == 6
\* the longest provider response given to _parse_response, in pieces
MaxResponseLen == 5
\* the longest secret given to mask_secret, and the largest show_chars
MaxSecretLen == 5
MaxShowChars == 2

----------------------------------------------------------------------------
(* Python dict / value helpers *)

\* d.get(k, default)
Get(d, k, default) == IF k \in DOMAIN d THEN d[k] ELSE default

\* {**a, **b}: the keys of b override those of a
Spread(a, b) == b @@ a

\* Stand-in for a 'value' that is not a string (Python None): str() of it is
\* "None", and slicing it raises TypeError.
NoneValue == "<None>"
Str(v) == IF v = NoneValue THEN "None" ELSE v
Subscriptable(v) == v # NoneValue

\* int(n / d) for d > 0: Python's int() truncates toward zero
TruncDiv(n, d) == IF n >= 0 THEN n \div d ELSE -((-n) \div d)

\* sep.join(seq)
RECURSIVE Join(_, _)
Join(seq, sep) ==
    IF seq = <<>> THEN ""
    ELSE IF Len(seq) = 1 THEN seq[1]
    ELSE seq[1] \o sep \o Join(Tail(seq), sep)

\* Python strings are sequences of one-character strings where their
\* characters matter.  An index of a slice, clamped as Python clamps it.
PyIndex(n, i) ==
    IF i < 0 THEN (IF n + i < 0 THEN 0 ELSE n + i)
    ELSE (IF i > n THEN n ELSE i)

\* s[i:j]
PySlice(s, i, j) ==
    LET a == PyIndex(Len(s), i)
        b == PyIndex(Len(s), j)
    IN IF a >= b THEN <<>> ELSE SubSeq(s, a + 1, b)

\* c * k
Repeat(c, k) == [i \in 1..(IF k < 0 THEN 0 ELSE k) |-> c]

\* s.strip()
RECURSIVE Strip(_)
Strip(line) ==
    IF line = <<>> THEN line
    ELSE IF line[1] = " " THEN Strip(Tail(line))
    ELSE IF line[Len(line)] = " " THEN Strip(SubSeq(line, 1, Len(line) - 1))
    ELSE line

\* the strings over alphabet of at most n characters
Strings(alphabet, n) == UNION { [1..k -> alphabet] : k \in 0..n }

----------------------------------------------------------------------------
(* Inputs: findings, contexts, provider responses *)

Secrets ==
    { [type |-> "aws", description |-> "AWS Access Key ID", value |-> "ab", line_number |-> 1],
      [type |-> "aws", description |-> "AWS Access Key ID", value |-> "ab", line_number |-> 2],
      [type |-> "generic", description |-> "Generic Secret", value |-> NoneValue, line_number |-> 3] }

Contexts == {"c", "bc"}

\* "openai" stands for any selector that names no provider of the manager
Selectors == {"claude", "gemini", "both", "openai"}

ProviderOrder == <<"claude", "gemini">>
ProviderIds == {"claude", "gemini"}

\* What the remote API does when a provider calls it: the call raises
\* (transport/API error) or returns a text that _parse_response turns into
\* the analysis dict.
Fail == [kind |-> "fail", error |-> "Connection error"]
Ok(a) == [kind |-> "ok", analysis |-> a]

Analysis(real, sev, conf, rem) ==
    [is_real_secret |-> real, severity |-> sev, confidence |-> conf,
     credential_type |-> "key", reasoning |-> "r", remediation |-> rem]

\* a JSON payload that carries none of the expected keys
BareAnalysis == [reasoning |-> "r"]

Severities == {"Low", "Medium", "High", "Critical", "Bogus"}
Confidences == {-5, 0, 35, 80, 100}
Remediations == {"", "rotate", "revoke"}

\* responses that vary the verdict along each of its axes
AnalysesAll ==
    { Analysis(real, sev, 80, "rotate") : real \in BOOLEAN, sev \in Severities }
    \cup { Analysis(TRUE, "High", conf, "rotate") : conf \in Confidences }
    \cup { Analysis(FALSE, "Low", 35, rem) : rem \in Remediations }
    \cup {BareAnalysis}

OutcomesAll == {Fail} \cup { Ok(a) : a \in AnalysesAll }

\* the dispatches used where the cache is exercised: a selector with the
\* responses of the two APIs
Dispatches ==
    { [provider |-> "claude",
       outs |-> [claude |-> Ok(Analysis(TRUE, "High", 80, "rotate")), gemini |-> Fail]],
      [provider |-> "both",
       outs |-> [claude |-> Ok(Analysis(FALSE, "Low", 35, "")),
                 gemini |-> Ok(Analysis(TRUE, "Critical", 100, "revoke"))]] }

\* the (finding, context) pairs used where the cache is exercised: two
\* findings that share a value, in one context, and one of them in another
CachedInputs ==
    { [secret |-> s, code_context |-> "c"] : s \in { x \in Secrets : x.value = "ab" } }
    \cup { [secret |-> s, code_context |-> "bc"] :
             s \in { x \in Secrets : x.value = "ab" /\ x.line_number = 1 } }

\* the responses of the two APIs to the judgment of one finding of a batch
BatchOutcomes ==
    { [claude |-> Ok(Analysis(TRUE, "High", 80, "rotate")),
       gemini |-> Ok(Analysis(FALSE, "Low", 35, "revoke"))],
      [claude |-> Fail, gemini |-> Ok(Analysis(TRUE, "Critical", 100, "revoke"))],
      [claude |-> Fail, gemini |-> Fail] }

\* the findings given to analyze_batch: those above and one of another value
BatchSecrets ==
    Secrets \cup { [type |-> "github", description |-> "GitHub App Token",
                    value |-> "gh", line_number |-> 2] }

\* the lists of findings of at most n elements
Batches(n) == UNION { [1..k -> BatchSecrets] : k \in 0..n }

\* the iteration orders a Python set of remediation strings can have
RemOrders == { <<"rotate", "revoke">>, <<"revoke", "rotate">> }

----------------------------------------------------------------------------
(* Judgment providers *)

\* _build_analysis_prompt: secret.get('value', 'N/A')[:50] raises when the
\* value cannot be sliced; it is called before the try block of analyze_secret.
BuildAnalysisPromptRaises(secret) == ~Subscriptable(Get(secret, "value", "N/A"))

\* the 'enhanced' dict both analyze_secret methods build from a parsed analysis
Enhanced(secret, analysis, id) ==
    Spread(secret,
           [ai_analysis |-> analysis,
            severity |-> Get(analysis, "severity", "Unknown"),
            confidence_score |-> Get(analysis, "confidence", 0),
            is_real_secret |-> Get(analysis, "is_real_secret", TRUE),
            remediation |-> Get(analysis, "remediation", ""),
            ai_provider |-> id])

\* the except branch also filling in an 'Unknown' severity
ProviderErrorWithSeverity(secret, msg, id) ==
    Spread(secret,
           [ai_analysis |-> [error |-> msg], severity |-> "Unknown",
            ai_provider |-> id, ai_error |-> TRUE])

\* the dict both analyze_secret methods return from their except branch
ProviderError(secret, msg, id) ==
    Spread(secret,
           [ai_analysis |-> [error |-> msg], ai_provider |-> id, ai_error |-> TRUE])

\* ClaudeAnalyzer.analyze_secret under API outcome o
ClaudeAnalyzeSecret(secret, code_context, o) ==
    IF BuildAnalysisPromptRaises(secret)
    THEN [raised |-> TRUE, exc |-> "TypeError"]
    ELSE IF o.kind = "ok"
         THEN [raised |-> FALSE, value |-> Enhanced(secret, o.analysis, "claude")]
         ELSE [raised |-> FALSE, value |-> ProviderError(secret, o.error, "claude")]

\* GeminiAnalyzer.analyze_secret under API outcome o
GeminiAnalyzeSecret(secret, code_context, o) ==
    IF BuildAnalysisPromptRaises(secret)
    THEN [raised |-> TRUE, exc |-> "TypeError"]
    ELSE IF o.kind = "ok"
         THEN [raised |-> FALSE, value |-> Enhanced(secret, o.analysis, "gemini")]
         ELSE [raised |-> FALSE, value |-> ProviderError(secret, o.error, "gemini")]

\* self.providers[p].analyze_secret(secret, code_context)
CallProvider(p, secret, code_context, outs) ==
    IF p = "claude" THEN ClaudeAnalyzeSecret(secret, code_context, outs[p])
    ELSE GeminiAnalyzeSecret(secret, code_context, outs[p])

----------------------------------------------------------------------------
(* AIManager *)

CacheTTL == 24

\* {}
EmptyDict == [k \in {} |-> TRUE]

\* ClaudeAnalyzer.__init__ in environment e: raises ValueError when
\* ANTHROPIC_API_KEY is unset or empty
ClaudeAnalyzerInit(e) ==
    IF e.ANTHROPIC_API_KEY = NoneValue \/ e.ANTHROPIC_API_KEY = ""
    THEN [raised |-> TRUE, exc |-> "ValueError"]
    ELSE [raised |-> FALSE]

\* GeminiAnalyzer.__init__ in environment e
GeminiAnalyzerInit(e) ==
    IF e.GOOGLE_API_KEY = NoneValue \/ e.GOOGLE_API_KEY = ""
    THEN [raised |-> TRUE, exc |-> "ValueError"]
    ELSE [raised |-> FALSE]

\* _init_providers without its try blocks: the first constructor that raises
\* ends the registration
InitProvidersAbort(cfg, e) ==
    LET claude_config == Get(cfg, "claude", EmptyDict)
        gemini_config == Get(cfg, "gemini", EmptyDict)
    IN IF Get(claude_config, "enabled", TRUE) /\ ClaudeAnalyzerInit(e).raised
       THEN {}
       ELSE (IF Get(claude_config, "enabled", TRUE) THEN {"claude"} ELSE {})
            \cup (IF Get(gemini_config, "enabled", TRUE) /\ ~GeminiAnalyzerInit(e).raised
                  THEN {"gemini"} ELSE {})

\* AIManager._init_providers on the 'ai.providers' mapping cfg of the
\* configuration: a provider is registered when it is enabled (by default it
\* is) and its constructor does not raise
InitProviders(cfg, e) ==
    LET claude_config == Get(cfg, "claude", EmptyDict)
        gemini_config == Get(cfg, "gemini", EmptyDict)
    IN (IF Get(claude_config, "enabled", TRUE) /\ ~ClaudeAnalyzerInit(e).raised
        THEN {"claude"} ELSE {})
       \cup (IF Get(gemini_config, "enabled", TRUE) /\ ~GeminiAnalyzerInit(e).raised
             THEN {"gemini"} ELSE {})

\* AIManager._get_cache_key; the md5 digest is taken to be injective on the
\* concatenated text
GetCacheKey(secret, code_context) == Str(Get(secret, "value", "")) \o code_context

HasKey(c, key) == \E e \in c : e.key = key
Entry(c, key) == CHOOSE e \in c : e.key = key

\* _get_from_cache with the expiry test off by one: an entry whose age equals
\* the TTL still counts as fresh
GetFromCacheLate(c, key, t) ==
    IF HasKey(c, key)
    THEN IF t - Entry(c, key).time <= CacheTTL
         THEN [cache |-> c, found |-> TRUE, result |-> Entry(c, key).result]
         ELSE [cache |-> c \ {Entry(c, key)}, found |-> FALSE]
    ELSE [cache |-> c, found |-> FALSE]

\* _get_from_cache restarting the entry's clock on a hit
GetFromCacheRefresh(c, key, t) ==
    IF HasKey(c, key)
    THEN LET e == Entry(c, key) IN
         IF t - e.time < CacheTTL
         THEN [cache |-> (c \ {e}) \cup {[e EXCEPT !.time = t]}, found |-> TRUE,
               result |-> e.result]
         ELSE [cache |-> c \ {e}, found |-> FALSE]
    ELSE [cache |-> c, found |-> FALSE]

\* _get_from_cache removing every expired entry, whatever its key
GetFromCacheSweep(c, key, t) ==
    LET kept == { e \in c : t - e.time < CacheTTL }
    IN IF HasKey(kept, key)
       THEN [cache |-> kept, found |-> TRUE, result |-> Entry(kept, key).result]
       ELSE [cache |-> kept, found |-> FALSE]

\* _get_from_cache leaving an expired entry in place
GetFromCacheKeep(c, key, t) ==
    IF HasKey(c, key) /\ t - Entry(c, key).time < CacheTTL
    THEN [cache |-> c, found |-> TRUE, result |-> Entry(c, key).result]
    ELSE [cache |-> c, found |-> FALSE]

\* AIManager._get_from_cache at time t: the cache after the read, and the
\* result returned (found = FALSE for None)
GetFromCache(c, key, t) ==
    IF HasKey(c, key)
    THEN IF t - Entry(c, key).time < CacheTTL
         THEN [cache |-> c, found |-> TRUE, result |-> Entry(c, key).result]
         ELSE [cache |-> c \ {Entry(c, key)}, found |-> FALSE]
    ELSE [cache |-> c, found |-> FALSE]

\* AIManager._add_to_cache at time t
AddToCache(c, key, result, t) ==
    { e \in c : e.key # key } \cup {[key |-> key, time |-> t, result |-> result]}

\* the 'no providers' result without its ai_error flag
NoProvidersErrorUnmarked(secret) ==
    Spread(secret, [ai_analysis |-> [error |-> "No AI providers available"]])

\* the dict _analyze_with_provider returns when no provider is registered
NoProvidersError(secret) ==
    Spread(secret, [ai_analysis |-> [error |-> "No AI providers available"],
                    ai_error |-> TRUE])

\* the fallback loop trying the provider that has just raised again
RECURSIVE FallbackLoopRetry(_, _, _, _, _, _, _, _)
FallbackLoopRetry(regs, secret, code_context, provider, outs, e, i, invoked) ==
    IF i > Len(ProviderOrder)
    THEN [result |-> Spread(secret, [ai_analysis |-> [error |-> e], ai_error |-> TRUE]),
          invoked |-> invoked]
    ELSE LET fb == ProviderOrder[i] IN
         IF fb \in regs
         THEN LET r == CallProvider(fb, secret, code_context, outs) IN
              IF r.raised
              THEN FallbackLoopRetry(regs, secret, code_context, provider, outs, e,
                                     i + 1, Append(invoked, fb))
              ELSE [result |-> r.value, invoked |-> Append(invoked, fb)]
         ELSE FallbackLoopRetry(regs, secret, code_context, provider, outs, e, i + 1,
                                invoked)

\* the fallback loop of _analyze_with_provider, from index i of ['claude', 'gemini']
RECURSIVE FallbackLoop(_, _, _, _, _, _, _, _)
FallbackLoop(regs, secret, code_context, provider, outs, e, i, invoked) ==
    IF i > Len(ProviderOrder)
    THEN [result |-> Spread(secret, [ai_analysis |-> [error |-> e], ai_error |-> TRUE]),
          invoked |-> invoked]
    ELSE LET fb == ProviderOrder[i] IN
         IF fb # provider /\ fb \in regs
         THEN LET r == CallProvider(fb, secret, code_context, outs) IN
              IF r.raised
              THEN FallbackLoop(regs, secret, code_context, provider, outs, e, i + 1,
                                Append(invoked, fb))
              ELSE [result |-> r.value, invoked |-> Append(invoked, fb)]
         ELSE FallbackLoop(regs, secret, code_context, provider, outs, e, i + 1, invoked)

\* the substitution with the fallback order reversed
ResolveProviderGeminiFirst(regs, provider) ==
    IF provider \in regs THEN provider
    ELSE IF "gemini" \in regs THEN "gemini"
    ELSE IF "claude" \in regs THEN "claude"
    ELSE ""

\* the provider _analyze_with_provider settles on ("" when none is registered)
ResolveProvider(regs, provider) ==
    IF provider \in regs THEN provider
    ELSE IF "claude" \in regs THEN "claude"
    ELSE IF "gemini" \in regs THEN "gemini"
    ELSE ""

\* AIManager._analyze_with_provider
AnalyzeWithProvider(regs, secret, code_context, provider, outs) ==
    LET p == ResolveProvider(regs, provider) IN
    IF p = ""
    THEN [result |-> NoProvidersError(secret), invoked |-> <<>>]
    ELSE LET r == CallProvider(p, secret, code_context, outs) IN
         IF ~r.raised
         THEN [result |-> r.value, invoked |-> <<p>>]
         ELSE FallbackLoop(regs, secret, code_context, p, outs, r.exc, 1, <<p>>)

\* sum(1 for r in results if r.get('is_real_secret', True))
RECURSIVE IsRealCount(_)
IsRealCount(results) ==
    IF results = <<>> THEN 0
    ELSE (IF Get(results[1], "is_real_secret", TRUE) THEN 1 ELSE 0)
         + IsRealCount(Tail(results))

\* sum(r.get('confidence_score', 50) for r in results)
RECURSIVE ConfidenceSum(_)
ConfidenceSum(results) ==
    IF results = <<>> THEN 0
    ELSE Get(results[1], "confidence_score", 50) + ConfidenceSum(Tail(results))

\* severity_order.get(s, 2)
SeverityOrder(s) ==
    CASE s = "Low" -> 1
      [] s = "Medium" -> 2
      [] s = "High" -> 3
      [] s = "Critical" -> 4
      [] OTHER -> 2

\* max(severities, key=...): the first element of the largest rank
RECURSIVE MaxSeverity(_)
MaxSeverity(severities) ==
    IF Len(severities) = 1 THEN severities[1]
    ELSE LET rest == MaxSeverity(Tail(severities)) IN
         IF SeverityOrder(severities[1]) >= SeverityOrder(rest)
         THEN severities[1] ELSE rest

\* the join without set(): remediations are not deduplicated
CombinedRemediationList(results, remOrder) ==
    Join(SelectSeq([i \in 1..Len(results) |-> Get(results[i], "remediation", "")],
                   LAMBDA r : r # ""), " | ")

\* ' | '.join(set(remediations)), the set iterated in the order remOrder gives
CombinedRemediation(results, remOrder) ==
    LET remediations ==
            { Get(results[i], "remediation", "") : i \in 1..Len(results) } \ {""}
    IN Join(SelectSeq(remOrder, LAMBDA r : r \in remediations), " | ")

\* AIManager._combine_analyses
CombineAnalyses(secret, results, remOrder) ==
    IF results = <<>> THEN secret
    ELSE IF Len(results) = 1 THEN results[1]
    ELSE LET is_real == 2 * IsRealCount(results) > Len(results)
             confidence == TruncDiv(ConfidenceSum(results), Len(results))
             max_severity ==
                 MaxSeverity([i \in 1..Len(results) |-> Get(results[i], "severity", "Medium")])
         IN Spread(secret,
                [ai_analysis |->
                    [is_real_secret |-> is_real,
                     severity |-> max_severity,
                     confidence |-> confidence,
                     combined_from |->
                        [i \in 1..Len(results) |-> Get(results[i], "ai_provider", "unknown")],
                     reasoning |-> "Consensus from multiple AI providers"],
                 severity |-> max_severity,
                 confidence_score |-> confidence,
                 is_real_secret |-> is_real,
                 remediation |-> CombinedRemediation(results, remOrder),
                 ai_provider |-> "combined"])

\* the collecting loop of _analyze_with_both, from index i of ['claude', 'gemini']
RECURSIVE BothLoop(_, _, _, _, _, _, _)
BothLoop(regs, secret, code_context, outs, i, results, invoked) ==
    IF i > Len(ProviderOrder) THEN [results |-> results, invoked |-> invoked]
    ELSE LET p == ProviderOrder[i] IN
         IF p \in regs
         THEN LET r == CallProvider(p, secret, code_context, outs) IN
              BothLoop(regs, secret, code_context, outs, i + 1,
                       IF r.raised THEN results ELSE Append(results, r.value),
                       Append(invoked, p))
         ELSE BothLoop(regs, secret, code_context, outs, i + 1, results, invoked)

\* AIManager._analyze_with_both
AnalyzeWithBoth(regs, secret, code_context, outs, remOrder) ==
    LET l == BothLoop(regs, secret, code_context, outs, 1, <<>>, <<>>) IN
    IF l.results = <<>>
    THEN [result |-> Spread(secret, [ai_analysis |-> [error |-> "All providers failed"],
                                     ai_error |-> TRUE]),
          invoked |-> l.invoked]
    ELSE [result |-> CombineAnalyses(secret, l.results, remOrder),
          invoked |-> l.invoked]

\* analyze_secret keeping error-marked results out of the cache
AnalyzeSecretSkipErrors(regs, c, t, secret, code_context, provider, use_cache, outs, remOrder) ==
    LET key == GetCacheKey(secret, code_context)
        look == IF use_cache THEN GetFromCache(c, key, t)
                ELSE [cache |-> c, found |-> FALSE]
    IN IF look.found
       THEN [cache |-> look.cache, result |-> look.result, invoked |-> <<>>,
             hit |-> TRUE, read |-> look.cache]
       ELSE LET a == IF provider = "both"
                     THEN AnalyzeWithBoth(regs, secret, code_context, outs, remOrder)
                     ELSE AnalyzeWithProvider(regs, secret, code_context, provider, outs)
            IN [cache |-> IF use_cache /\ ~Get(a.result, "ai_error", FALSE)
                          THEN AddToCache(look.cache, key, a.result, t)
                          ELSE look.cache,
                result |-> a.result, invoked |-> a.invoked, hit |-> FALSE,
                read |-> look.cache]

\* analyze_secret with a cache key that includes the provider selector
AnalyzeSecretKeyedBySelector(regs, c, t, secret, code_context, provider, use_cache, outs, remOrder) ==
    LET key == GetCacheKey(secret, code_context) \o provider
        look == IF use_cache THEN GetFromCache(c, key, t)
                ELSE [cache |-> c, found |-> FALSE]
    IN IF look.found
       THEN [cache |-> look.cache, result |-> look.result, invoked |-> <<>>,
             hit |-> TRUE, read |-> look.cache]
       ELSE LET a == IF provider = "both"
                     THEN AnalyzeWithBoth(regs, secret, code_context, outs, remOrder)
                     ELSE AnalyzeWithProvider(regs, secret, code_context, provider, outs)
            IN [cache |-> IF use_cache
                          THEN AddToCache(AddToCache(look.cache, key, a.result, t),
                                          GetCacheKey(secret, code_context), a.result, t)
                          ELSE look.cache,
                result |-> a.result, invoked |-> a.invoked, hit |-> FALSE,
                read |-> look.cache]

\* analyze_secret storing its result whether or not the cache is in use
AnalyzeSecretAlwaysStore(regs, c, t, secret, code_context, provider, use_cache, outs, remOrder) ==
    LET key == GetCacheKey(secret, code_context)
        look == IF use_cache THEN GetFromCache(c, key, t)
                ELSE [cache |-> c, found |-> FALSE]
    IN IF look.found
       THEN [cache |-> look.cache, result |-> look.result, invoked |-> <<>>,
             hit |-> TRUE, read |-> look.cache]
       ELSE LET a == IF provider = "both"
                     THEN AnalyzeWithBoth(regs, secret, code_context, outs, remOrder)
                     ELSE AnalyzeWithProvider(regs, secret, code_context, provider, outs)
            IN [cache |-> AddToCache(look.cache, key, a.result, t),
                result |-> a.result, invoked |-> a.invoked, hit |-> FALSE,
                read |-> look.cache]

\* AIManager.analyze_secret on cache c at time t: the cache afterwards, the
\* result, the providers invoked (in order), whether the cache answered, and
\* the cache as the lookup left it (read)
AnalyzeSecret(regs, c, t, secret, code_context, provider, use_cache, outs, remOrder) ==
    LET key == GetCacheKey(secret, code_context)
        look == IF use_cache THEN GetFromCache(c, key, t)
                ELSE [cache |-> c, found |-> FALSE]
    IN IF look.found
       THEN [cache |-> look.cache, result |-> look.result, invoked |-> <<>>,
             hit |-> TRUE, read |-> look.cache]
       ELSE LET a == IF provider = "both"
                     THEN AnalyzeWithBoth(regs, secret, code_context, outs, remOrder)
                     ELSE AnalyzeWithProvider(regs, secret, code_context, provider, outs)
            IN [cache |-> IF use_cache THEN AddToCache(look.cache, key, a.result, t)
                          ELSE look.cache,
                result |-> a.result, invoked |-> a.invoked, hit |-> FALSE,
                read |-> look.cache]

\* the loop of AIManager.analyze_batch from index i on: finding i is analyzed
\* on the cache the earlier findings left, the remote APIs answering outsSeq[i]
RECURSIVE AnalyzeBatchLoop(_, _, _, _, _, _, _, _, _, _)
AnalyzeBatchLoop(regs, c, t, secrets, code_context, provider, use_cache, outsSeq, i, acc) ==
    IF i > Len(secrets) THEN [acc EXCEPT !.cache = c]
    ELSE LET a == AnalyzeSecret(regs, c, t, secrets[i], code_context, provider,
                                use_cache, outsSeq[i], <<"rotate", "revoke">>)
         IN AnalyzeBatchLoop(regs, a.cache, t, secrets, code_context, provider,
                             use_cache, outsSeq, i + 1,
                             [acc EXCEPT !.results = Append(@, a.result),
                                         !.invoked = Append(@, a.invoked),
                                         !.hits = Append(@, a.hit)])

\* AIManager.analyze_batch on cache c at time t: the cache afterwards and, per
\* finding, the result, the providers invoked and whether the cache answered
AnalyzeBatch(regs, c, t, secrets, code_context, provider, use_cache, outsSeq) ==
    AnalyzeBatchLoop(regs, c, t, secrets, code_context, provider, use_cache, outsSeq, 1,
                     [cache |-> c, results |-> <<>>, invoked |-> <<>>, hits |-> <<>>])

\* test_connection of either analyzer: True when the API call returns, False
\* when it raises
TestConnection(p, conn) == conn[p] = "ok"

\* test_providers dropping the providers whose connection test fails
TestProvidersPrune(regs, conn) ==
    [status |-> [p \in regs |-> TestConnection(p, conn)],
     providers |-> { p \in regs : TestConnection(p, conn) }]

\* AIManager.test_providers: the status it returns and the registry it leaves
TestProviders(regs, conn) ==
    [status |-> [p \in regs |-> TestConnection(p, conn)], providers |-> regs]

\* AIManager.get_available_providers: the keys of self.providers in insertion
\* order, which _init_providers makes claude before gemini
GetAvailableProviders(regs) == SelectSeq(ProviderOrder, LAMBDA p : p \in regs)

----------------------------------------------------------------------------
(* State machine *)

\* a provider's section of the configuration: empty, or with 'enabled'
ProviderSections == {EmptyDict} \cup [enabled : BOOLEAN]

\* the 'ai.providers' mapping of the configuration ({} when the file or the
\* mapping is absent): a section for some of the providers
Configs == UNION { [ids -> ProviderSections] : ids \in SUBSET ProviderIds }

\* what os.getenv gives for a credential: None when unset, or its text
KeyValues == {NoneValue, "", "sk"}
Envs == [ANTHROPIC_API_KEY : KeyValues, GOOGLE_API_KEY : KeyValues]

\* AIManager.__init__
Init ==
    /\ \E cfg \in Configs, e \in Envs : providers = InitProviders(cfg, e)
    /\ cache = {}
    /\ now = 0
    /\ calls = 0
    /\ last = [op |-> "init"]
    /\ hist = {}

\* One call of AIManager.analyze_secret, the remote APIs answering outs
DoAnalyze(secret, code_context, provider, use_cache, outs, remOrder) ==
    LET key == GetCacheKey(secret, code_context)
        a == AnalyzeSecret(providers, cache, now, secret, code_context, provider,
                           use_cache, outs, remOrder)
        call == [key |-> key, time |-> now, secret |-> secret,
                 code_context |-> code_context, result |-> a.result,
                 invoked |-> a.invoked, cleared |-> FALSE]
    IN /\ cache' = a.cache
       /\ last' = [op |-> "analyze_secret", secret |-> secret,
                   code_context |-> code_context, provider |-> provider,
                   use_cache |-> use_cache, outcomes |-> outs, time |-> now,
                   result |-> a.result, invoked |-> a.invoked, hit |-> a.hit,
                   read |-> a.read, prev |-> { h \in hist : h.key = key }]
       /\ hist' = IF use_cache
                  THEN { h \in hist : h.key # key } \cup {call}
                  ELSE hist
       /\ calls' = calls + 1
       /\ UNCHANGED <<providers, now>>

Analyze ==
    /\ calls < MaxCalls
    /\ \E in \in CachedInputs, use_cache \in BOOLEAN, d \in Dispatches :
           DoAnalyze(in.secret, in.code_context, d.provider, use_cache, d.outs,
                     <<"rotate", "revoke">>)

\* AIManager.clear_cache
ClearCache ==
    /\ cache # {}
    /\ cache' = {}
    /\ last' = [op |-> "clear_cache"]
    /\ hist' = { [h EXCEPT !.cleared = TRUE] : h \in hist }
    /\ UNCHANGED <<providers, now, calls>>

\* the clock advances
Tick ==
    \E d \in TickSteps :
        /\ now + d <= MaxTime
        /\ now' = now + d
        /\ UNCHANGED <<providers, cache, calls, last, hist>>

Next == Analyze \/ ClearCache \/ Tick

Spec == Init /\ [][Next]_vars

\* The same manager on one finding in two contexts, which gives two cache keys
CacheInputs == { in \in CachedInputs : in.secret.line_number = 1 }

CacheAnalyze ==
    /\ calls < MaxCalls
    /\ \E in \in CacheInputs, use_cache \in BOOLEAN, d \in Dispatches :
           DoAnalyze(in.secret, in.code_context, d.provider, use_cache, d.outs,
                     <<"rotate", "revoke">>)

NextCache == CacheAnalyze \/ ClearCache \/ Tick

SpecCache == Init /\ [][NextCache]_vars

\* Before construction: a configuration and an environment
InitConfig ==
    /\ providers = {}
    /\ cache = {}
    /\ now = 0
    /\ calls = 0
    /\ hist = {}
    /\ \E cfg \in Configs, e \in Envs :
           last = [op |-> "config", config |-> cfg, env |-> e]

\* AIManager.__init__ on that configuration
Construct ==
    /\ last.op = "config"
    /\ providers' = InitProviders(last.config, last.env)
    /\ cache' = {}
    /\ last' = [op |-> "constructed", config |-> last.config, env |-> last.env]
    /\ UNCHANGED <<now, calls, hist>>

NextInit == Construct

SpecInit == InitConfig /\ [][NextInit]_vars

\* One analysis right after construction, over the full range of provider
\* responses and of set iteration orders
AnalyzeOnce ==
    /\ calls = 0
    /\ \E secret \in Secrets, code_context \in Contexts, provider \in Selectors,
          oc \in OutcomesAll, og \in OutcomesAll, remOrder \in RemOrders :
           DoAnalyze(secret, code_context, provider, FALSE,
                     [claude |-> oc, gemini |-> og], remOrder)

NextOnce == AnalyzeOnce

SpecOnce == Init /\ [][NextOnce]_vars

\* One call of AIManager.analyze_batch, the remote APIs answering outsSeq[i]
\* for finding i
DoAnalyzeBatch(secrets, code_context, provider, use_cache, outsSeq) ==
    LET b == AnalyzeBatch(providers, cache, now, secrets, code_context,
                          provider, use_cache, outsSeq)
        keys == { GetCacheKey(secrets[i], code_context) : i \in 1..Len(secrets) }
        \* the last analysis of the batch on cache key k
        lastOf(k) == CHOOSE i \in 1..Len(secrets) :
                        /\ GetCacheKey(secrets[i], code_context) = k
                        /\ \A j \in (i + 1)..Len(secrets) :
                               GetCacheKey(secrets[j], code_context) # k
    IN /\ cache' = b.cache
       /\ last' = [op |-> "analyze_batch", secrets |-> secrets,
                   code_context |-> code_context, provider |-> provider,
                   use_cache |-> use_cache, outcomes |-> outsSeq, time |-> now,
                   results |-> b.results, invoked |-> b.invoked, hits |-> b.hits]
       /\ hist' = IF use_cache
                  THEN { h \in hist : h.key \notin keys }
                       \cup { [key |-> k, time |-> now, secret |-> secrets[lastOf(k)],
                               code_context |-> code_context,
                               result |-> b.results[lastOf(k)],
                               invoked |-> b.invoked[lastOf(k)],
                               cleared |-> FALSE] : k \in keys }
                  ELSE hist
       /\ calls' = calls + 1
       /\ UNCHANGED <<providers, now>>

\* One call of AIManager.analyze_batch right after construction
AnalyzeBatchOnce ==
    /\ calls = 0
    /\ \E secrets \in Batches(MaxBatchLen), code_context \in Contexts,
          provider \in Selectors, use_cache \in BOOLEAN :
        \E outsSeq \in [1..Len(secrets) -> BatchOutcomes] :
           DoAnalyzeBatch(secrets, code_context, provider, use_cache, outsSeq)

NextBatch == AnalyzeBatchOnce

SpecBatch == Init /\ [][NextBatch]_vars

\* A manager in use: any MaxOps of its operations after construction, on a
\* few findings, with the remote APIs answering or failing
MaxOps == 2

\* the batches used there: two findings, the APIs answering both alike
RegistryBatches ==
    { <<s, t>> : s \in { x \in Secrets : x.line_number = 1 }, t \in Secrets }

RegistryAnalyze ==
    /\ calls < MaxOps
    /\ \E secret \in Secrets, use_cache \in BOOLEAN, d \in Dispatches :
           DoAnalyze(secret, "c", d.provider, use_cache, d.outs, <<"rotate", "revoke">>)

RegistryAnalyzeBatch ==
    /\ calls < MaxOps
    /\ \E secrets \in RegistryBatches, provider \in {"gemini", "both"},
          o \in BatchOutcomes :
           DoAnalyzeBatch(secrets, "c", provider, TRUE, [i \in 1..Len(secrets) |-> o])

\* AIManager.test_providers, each API reachable or not
RegistryTestProviders ==
    /\ calls < MaxOps
    /\ \E conn \in [ProviderIds -> {"ok", "fail"}] :
           LET t == TestProviders(providers, conn)
           IN /\ providers' = t.providers
              /\ last' = [op |-> "test_providers", connections |-> conn,
                          status |-> t.status]
    /\ calls' = calls + 1
    /\ UNCHANGED <<cache, now, hist>>

\* AIManager.get_available_providers
RegistryGetAvailable ==
    /\ calls < MaxOps
    /\ last' = [op |-> "get_available_providers",
                result |-> GetAvailableProviders(providers)]
    /\ calls' = calls + 1
    /\ UNCHANGED <<providers, cache, now, hist>>

NextRegistry ==
    \/ RegistryAnalyze
    \/ RegistryAnalyzeBatch
    \/ ClearCache
    \/ RegistryTestProviders
    \/ RegistryGetAvailable

SpecRegistry == Init /\ [][NextRegistry]_vars

----------------------------------------------------------------------------
(* _parse_response of the two analyzers *)

\* A response text is a sequence of pieces: the two braces, a JSON member
\* ("severity": "High"), a word of prose, the markdown fence (three backquotes)
\* and the word json.
Fence == "fence"
ResponsePieces == {"{", "}", "member", "prose", Fence, "json"}

\* s.find(sub, from): the 0-based index of the first occurrence of the
\* sequence sub at or after index from, or -1
FindFrom(s, sub, from) ==
    LET hits == { i \in from..(Len(s) - Len(sub)) : SubSeq(s, i + 1, i + Len(sub)) = sub }
    IN IF hits = {} THEN -1 ELSE CHOOSE i \in hits : \A j \in hits : i <= j

\* s.rfind(sub)
RFind(s, sub) ==
    LET hits == { i \in 0..(Len(s) - Len(sub)) : SubSeq(s, i + 1, i + Len(sub)) = sub }
    IN IF hits = {} THEN -1 ELSE CHOOSE i \in hits : \A j \in hits : i >= j

\* json.loads on a text that begins with '{': the object, or JSONDecodeError
JsonLoads(text) ==
    IF text = <<"{", "}">> THEN [raised |-> FALSE, value |-> EmptyDict]
    ELSE IF text = <<"{", "member", "}">>
         THEN [raised |-> FALSE, value |-> [severity |-> "High"]]
         ELSE [raised |-> TRUE, exc |-> "JSONDecodeError"]

\* the text of the reasoning of the verdict returned on JSONDecodeError
FailedToParse == <<"Failed to parse AI response">>

\* the verdict returned when the text holds no payload
FallbackVerdict(response_text) ==
    [is_real_secret |-> TRUE, severity |-> "Medium", confidence |-> 50,
     credential_type |-> "Unknown", reasoning |-> response_text,
     remediation |-> "Review and rotate if necessary"]

\* the verdict returned on JSONDecodeError
ParseErrorVerdict ==
    [is_real_secret |-> TRUE, severity |-> "Medium", confidence |-> 50,
     credential_type |-> "Unknown", reasoning |-> FailedToParse,
     remediation |-> "Manual review required"]

\* the extraction both _parse_response methods end with: the span from the
\* first '{' to the last '}' is parsed; JSONDecodeError is handled
ExtractJson(response_text) ==
    LET json_start == FindFrom(response_text, <<"{">>, 0)
        json_end == RFind(response_text, <<"}">>) + 1
    IN IF json_start >= 0 /\ json_end > json_start
       THEN LET r == JsonLoads(PySlice(response_text, json_start, json_end))
            IN IF r.raised
               THEN IF r.exc = "JSONDecodeError"
                    THEN [raised |-> FALSE, value |-> ParseErrorVerdict]
                    ELSE [raised |-> TRUE, exc |-> r.exc]
               ELSE [raised |-> FALSE, value |-> r.value]
       ELSE [raised |-> FALSE, value |-> FallbackVerdict(response_text)]

\* ClaudeAnalyzer._parse_response
ClaudeParseResponse(response_text) == ExtractJson(response_text)

\* the removal of markdown code blocks GeminiAnalyzer._parse_response starts
\* with; find gives -1 when the block is not closed, and the slice then ends
\* before the last piece of the text
GeminiStripFences(response_text) ==
    IF FindFrom(response_text, <<Fence, "json">>, 0) >= 0
    THEN LET json_start == FindFrom(response_text, <<Fence, "json">>, 0) + 2
             json_end == FindFrom(response_text, <<Fence>>, json_start)
         IN Strip(PySlice(response_text, json_start, json_end))
    ELSE IF FindFrom(response_text, <<Fence>>, 0) >= 0
         THEN LET json_start == FindFrom(response_text, <<Fence>>, 0) + 1
                  json_end == FindFrom(response_text, <<Fence>>, json_start)
              IN Strip(PySlice(response_text, json_start, json_end))
         ELSE response_text

\* GeminiAnalyzer._parse_response
GeminiParseResponse(response_text) == ExtractJson(GeminiStripFences(response_text))

\* a response text and the analyzer that receives it
InitParse ==
    /\ providers = {}
    /\ cache = {}
    /\ now = 0
    /\ calls = 0
    /\ hist = {}
    /\ \E response_text \in Strings(ResponsePieces, MaxResponseLen), p \in ProviderIds :
           last = [op |-> "parse_input", analyzer |-> p, response_text |-> response_text]

Parse ==
    /\ last.op = "parse_input"
    /\ last' = [op |-> "parse_response", analyzer |-> last.analyzer,
                response_text |-> last.response_text,
                result |-> IF last.analyzer = "claude"
                           THEN ClaudeParseResponse(last.response_text)
                           ELSE GeminiParseResponse(last.response_text)]
    /\ UNCHANGED <<providers, cache, now, calls, hist>>

NextParse == Parse

SpecParse == InitParse /\ [][NextParse]_vars

\* the text has a span from a '{' to a later '}'
HasSpan(text) ==
    \E i, j \in 1..Len(text) : i < j /\ text[i] = "{" /\ text[j] = "}"

\* the span from the first '{' to the last '}' of a text that has one
SpanOf(text) ==
    LET i == CHOOSE a \in 1..Len(text) :
                 text[a] = "{" /\ \A b \in 1..(a - 1) : text[b] # "{"
        j == CHOOSE a \in 1..Len(text) :
                 text[a] = "}" /\ \A b \in (a + 1)..Len(text) : text[b] # "}"
    IN SubSeq(text, i, j)

\* C20: parsing a provider response never raises; when the text has no
\* '{' ... '}' span the verdict is the default (Medium, 50) with the raw
\* response text as reasoning; when the span from the first '{' to the last
\* '}' fails to parse it is the default (Medium, 50) with the 'manual review
\* required' remediation and the 'failed to parse' reasoning; the reasoning
\* tells the two cases apart.
C20_ParseNeverRaises ==
    last.op = "parse_response"
    => LET t == last.response_text
           r == last.result
       IN /\ ~r.raised
          /\ ~HasSpan(t)
             => /\ r.value.severity = "Medium"
                /\ r.value.confidence = 50
                /\ r.value.reasoning = t
                /\ r.value.reasoning # FailedToParse
          /\ (HasSpan(t) /\ JsonLoads(SpanOf(t)).raised)
             => /\ r.value.severity = "Medium"
                /\ r.value.confidence = 50
                /\ r.value.remediation = "Manual review required"
                /\ r.value.reasoning = FailedToParse

----------------------------------------------------------------------------
(* SecretPatterns.mask_secret *)

SecretChars == {"a", "b"}

\* SecretPatterns.mask_secret; secret[-show_chars:] is the slice from index
\* -show_chars to the end, and -0 is the index 0
MaskSecret(secret, show_chars) ==
    IF Len(secret) <= show_chars * 2
    THEN Repeat("*", Len(secret))
    ELSE LET start == PySlice(secret, 0, show_chars)
             end == PySlice(secret, 0 - show_chars, Len(secret))
             masked_length == Len(secret) - (show_chars * 2)
         IN start \o Repeat("*", masked_length) \o end

\* a secret and a show_chars to mask it with
InitMask ==
    /\ providers = {}
    /\ cache = {}
    /\ now = 0
    /\ calls = 0
    /\ hist = {}
    /\ \E secret \in Strings(SecretChars, MaxSecretLen), show_chars \in 0..MaxShowChars :
           last = [op |-> "mask_input", secret |-> secret, show_chars |-> show_chars]

Mask ==
    /\ last.op = "mask_input"
    /\ last' = [op |-> "mask_secret", secret |-> last.secret,
                show_chars |-> last.show_chars,
                result |-> MaskSecret(last.secret, last.show_chars)]
    /\ UNCHANGED <<providers, cache, now, calls, hist>>

NextMask == Mask

SpecMask == InitMask /\ [][NextMask]_vars

\* C15: mask(secret, show_chars) is, for every secret and every show_chars >= 0,
\* a string of the length of the secret: all asterisks when
\* len(secret) <= 2 * show_chars, otherwise the first and the last show_chars
\* characters of the secret with an asterisk at every position in between.
C15_MaskShape ==
    last.op = "mask_secret"
    => LET s == last.secret
           n == last.show_chars
           r == last.result
       IN /\ Len(r) = Len(s)
          /\ Len(s) <= 2 * n => \A i \in 1..Len(r) : r[i] = "*"
          /\ Len(s) > 2 * n
             => \A i \in 1..Len(r) :
                   r[i] = IF i <= n \/ i > Len(s) - n THEN s[i] ELSE "*"

----------------------------------------------------------------------------
(* SecretPatterns.detect_secrets *)

Newline == "\n"
ContentChars == {"A", "B", " ", Newline}

\* content.split(sep)
RECURSIVE Split(_, _)
Split(s, sep) ==
    IF \A i \in 1..Len(s) : s[i] # sep THEN <<s>>
    ELSE LET k == CHOOSE i \in 1..Len(s) :
                      s[i] = sep /\ \A j \in 1..(i - 1) : s[j] # sep
         IN <<SubSeq(s, 1, k - 1)>> \o Split(SubSeq(s, k + 1, Len(s)), sep)

\* sep.join(lines), the lines being sequences of characters
RECURSIVE JoinLines(_, _)
JoinLines(lines, sep) ==
    IF lines = <<>> THEN <<>>
    ELSE IF Len(lines) = 1 THEN lines[1]
    ELSE lines[1] \o <<sep>> \o JoinLines(Tail(lines), sep)

\* The catalog of _build_patterns, cut down to two categories; a pattern is a
\* sequence of character classes and matches the texts that have a character
\* of class i at position i.  The second category matches every text the first
\* matcher of 'aws' matches, as 'generic_secrets' does in the catalog.
Patterns ==
    << [type |-> "aws",
        list |-> << [pattern |-> <<{"A"}, {"A", "B"}>>, description |-> "AWS Access Key ID"],
                    [pattern |-> <<{"B"}>>, description |-> "AWS Secret Access Key"] >>],
       [type |-> "generic_secrets",
        list |-> << [pattern |-> <<{"A", "B"}, {"A", "B"}>>,
                     description |-> "Potential Secret (Long String)"] >>] >>

\* pattern matches line at position pos
MatchesAt(pattern, line, pos) ==
    /\ pos + Len(pattern) - 1 <= Len(line)
    /\ \A i \in 1..Len(pattern) : line[pos + i - 1] \in pattern[i]

\* pattern.finditer(line) from position pos on: the start positions of the
\* non-overlapping matches, found from left to right
RECURSIVE FindIter(_, _, _)
FindIter(pattern, line, pos) ==
    IF pos + Len(pattern) - 1 > Len(line) THEN <<>>
    ELSE IF MatchesAt(pattern, line, pos)
         THEN <<pos>> \o FindIter(pattern, line, pos + Len(pattern))
         ELSE FindIter(pattern, line, pos + 1)

\* concatenation of a sequence of sequences
RECURSIVE Concat(_)
Concat(seqs) == IF seqs = <<>> THEN <<>> ELSE seqs[1] \o Concat(Tail(seqs))

Max(a, b) == IF a >= b THEN a ELSE b
Min(a, b) == IF a <= b THEN a ELSE b

\* the context window with the window starting one line late
ContextOfLate(lines, line_num) ==
    LET start_line == Max(0, line_num - 2)
        end_line == Min(Len(lines), line_num + 2)
    IN JoinLines(PySlice(lines, start_line, end_line), Newline)

\* the context of a match on line line_num (1-based)
ContextOf(lines, line_num) ==
    LET start_line == Max(0, line_num - 3)
        end_line == Min(Len(lines), line_num + 2)
    IN JoinLines(PySlice(lines, start_line, end_line), Newline)

\* the dict appended for the match of matcher m of category c at position pos
\* of line line_num
Finding(c, m, lines, line_num, pos) ==
    LET line == lines[line_num]
        matcher == Patterns[c].list[m]
    IN [type |-> Patterns[c].type,
        description |-> matcher.description,
        value |-> SubSeq(line, pos, pos + Len(matcher.pattern) - 1),
        line_number |-> line_num,
        line_content |-> Strip(line),
        context |-> ContextOf(lines, line_num),
        confidence |-> "regex"]

\* the findings of matcher m of category c on line line_num
LineFindings(c, m, lines, line_num) ==
    LET found == FindIter(Patterns[c].list[m].pattern, lines[line_num], 1)
    IN [k \in 1..Len(found) |-> Finding(c, m, lines, line_num, found[k])]

\* a finding is dropped when an earlier one has its value and line
RECURSIVE Dedup(_, _)
Dedup(findings, seen) ==
    IF findings = <<>> THEN <<>>
    ELSE LET f == findings[1]
             id == <<f.value, f.line_number>>
         IN IF id \in seen THEN Dedup(Tail(findings), seen)
            ELSE <<f>> \o Dedup(Tail(findings), seen \cup {id})

\* detect_secrets removing duplicates of (value, line)
DetectSecretsDedup(content) ==
    LET lines == Split(content, Newline)
    IN Dedup(Concat([c \in 1..Len(Patterns) |->
                 Concat([m \in 1..Len(Patterns[c].list) |->
                     Concat([l \in 1..Len(lines) |-> LineFindings(c, m, lines, l)])])]), {})

\* detect_secrets with the loop over the lines outside the loops over the catalog
DetectSecretsByLine(content) ==
    LET lines == Split(content, Newline)
    IN Concat([l \in 1..Len(lines) |->
           Concat([c \in 1..Len(Patterns) |->
               Concat([m \in 1..Len(Patterns[c].list) |->
                   LineFindings(c, m, lines, l)])])])

\* SecretPatterns.detect_secrets: categories, then matchers, then lines, then
\* the matches of the line
DetectSecrets(content) ==
    LET lines == Split(content, Newline)
    IN Concat([c \in 1..Len(Patterns) |->
           Concat([m \in 1..Len(Patterns[c].list) |->
               Concat([l \in 1..Len(lines) |-> LineFindings(c, m, lines, l)])])])

\* a text to scan
InitDetect ==
    /\ providers = {}
    /\ cache = {}
    /\ now = 0
    /\ calls = 0
    /\ hist = {}
    /\ \E content \in Strings(ContentChars, MaxContentLen) :
           last = [op |-> "detect_input", content |-> content]

Detect ==
    /\ last.op = "detect_input"
    /\ last' = [op |-> "detect_secrets", content |-> last.content,
                findings |-> DetectSecrets(last.content)]
    /\ UNCHANGED <<providers, cache, now, calls, hist>>

NextDetect == Detect

SpecDetect == InitDetect /\ [][NextDetect]_vars

----------------------------------------------------------------------------
(* Properties *)

IsCall == last.op = "analyze_secret"

\* The latest call is a cache-enabled analyze_secret, and the most recent
\* cache-enabled analyze_secret on its cache key before it had the same
\* finding and context.
Repeated ==
    /\ IsCall
    /\ last.use_cache
    /\ \E h \in last.prev :
          h.secret = last.secret /\ h.code_context = last.code_context

First == CHOOSE h \in last.prev : TRUE

\* What the round trip promises of the second call, given the first
RoundTrip(first) ==
    /\ last.time - first.time < CacheTTL
          => last.result = first.result /\ last.invoked = <<>>
    /\ last.time - first.time >= CacheTTL => last.invoked # <<>>

\* C1 as stated: two cache-enabled analyze calls with the same finding and
\* context made less than TTL apart return equal results and the second
\* invokes no provider; made TTL or more apart, the second invokes a provider.
\* The claim is granted a registered provider and a cache that was not cleared
\* between the two calls.
C1_RoundTripAnyTwoCalls ==
    (Repeated /\ providers # {} /\ ~First.cleared) => RoundTrip(First)

\* C1 amended: the same, for a first call that itself invoked a provider (a
\* miss, which stored its result at the time of that call), with no clear_cache
\* and no other cache-enabled analyze of that cache key between the two calls.
C1_RoundTripAfterMiss ==
    (Repeated /\ ~First.cleared /\ First.invoked # <<>>) => RoundTrip(First)

\* C1 witness: a second call, later than the first but within the TTL, is
\* answered from the cache although the providers are asked for another answer.
C1_Witness ==
    /\ Repeated
    /\ ~First.cleared
    /\ First.invoked # <<>>
    /\ last.time > First.time
    /\ last.time - First.time < CacheTTL
    /\ last.hit
    /\ last.provider = "both"
    /\ First.result.ai_provider = "claude"

----------------------------------------------------------------------------
(* Properties of one dispatch *)

\* the latest call went to the providers (it was not answered from the cache)
Dispatched == IsCall /\ ~last.hit

Other(p) == IF p = "claude" THEN "gemini" ELSE "claude"

\* provider p is registered and its judgment of the latest call succeeds
Succeeds(p) ==
    /\ p \in providers
    /\ ~BuildAnalysisPromptRaises(last.secret)
    /\ last.outcomes[p].kind = "ok"

\* the API call of provider p fails (a transport/API error)
TransportFails(p) ==
    /\ ~BuildAnalysisPromptRaises(last.secret)
    /\ last.outcomes[p].kind = "fail"

\* the judgment of provider p fails, one way or the other
Fails(p) ==
    BuildAnalysisPromptRaises(last.secret) \/ last.outcomes[p].kind = "fail"

\* the verdict of provider p on the latest call, attached to the finding
Verdict(p) == Enhanced(last.secret, last.outcomes[p].analysis, p)

\* the registered providers whose judgment succeeds, in dispatch order
Successful == SelectSeq(ProviderOrder, LAMBDA p : Succeeds(p))
NSuccessful == Len(Successful)

HasErrorMarker(r) ==
    /\ Get(r, "ai_error", FALSE)
    /\ "ai_analysis" \in DOMAIN r
    /\ "error" \in DOMAIN r.ai_analysis

VerdictFields == {"severity", "is_real_secret", "confidence_score"}
HasVerdictFields(r) == VerdictFields \cap DOMAIN r # {}

ProviderOf(r) == Get(r, "ai_provider", "")

IsCombined == Dispatched /\ ProviderOf(last.result) = "combined"

\* C2: single-provider analysis with both providers registered: when the
\* selected provider's call fails with a transport/API error and the other
\* provider's judgment succeeds, the other provider is attempted after the
\* selected one and its verdict is returned; an error marker is returned only
\* when both have failed.
C2_FallbackOnTransportError ==
    (/\ Dispatched
     /\ last.provider \in ProviderIds
     /\ providers = ProviderIds
     /\ TransportFails(last.provider))
    => LET o == Other(last.provider) IN
       /\ Succeeds(o) => /\ last.invoked = <<last.provider, o>>
                         /\ last.result = Verdict(o)
       /\ HasErrorMarker(last.result) => \A p \in providers : Fails(p)

\* C3: all-providers analysis in which the judgment of every registered
\* provider fails returns the finding with an error marker and without verdict
\* fields or the 'combined' provider identifier.
C3_AllFailIsErrorMarker ==
    (/\ Dispatched
     /\ last.provider = "both"
     /\ providers # {}
     /\ \A p \in providers : Fails(p))
    => /\ HasErrorMarker(last.result)
       /\ ~HasVerdictFields(last.result)
       /\ ProviderOf(last.result) # "combined"

\* C4: all-providers analysis in which exactly one provider's judgment
\* succeeds (the other unregistered or failed) returns that provider's verdict
\* unchanged, under its own provider identifier.
C4_SingleVerdictUnchanged ==
    (Dispatched /\ last.provider = "both" /\ NSuccessful = 1)
    => LET v == Verdict(Successful[1]) IN
       /\ ProviderOf(last.result) = Successful[1]
       /\ HasVerdictFields(last.result)
       /\ last.result.is_real_secret = v.is_real_secret
       /\ last.result.severity = v.severity
       /\ last.result.confidence_score = v.confidence_score
       /\ last.result.remediation = v.remediation

\* the number of successful verdicts that say the secret is real
NSayReal ==
    Cardinality({ i \in 1..NSuccessful : Verdict(Successful[i]).is_real_secret })

\* C5: the consensus is_real_secret is true exactly when strictly more than
\* half of the combined verdicts say real.
C5_MajorityVote ==
    IsCombined => (last.result.is_real_secret <=> 2 * NSayReal > NSuccessful)

\* the rank the specification gives a severity
Rank(sev) ==
    IF sev = "Low" THEN 1
    ELSE IF sev = "High" THEN 3
    ELSE IF sev = "Critical" THEN 4
    ELSE 2

\* C6: the consensus severity is the severity of one of the input verdicts,
\* of a rank at least that of every input verdict's severity.
C6_MaxSeverity ==
    IsCombined
    => /\ \E i \in 1..NSuccessful :
             last.result.severity = Verdict(Successful[i]).severity
       /\ \A i \in 1..NSuccessful :
             Rank(last.result.severity) >= Rank(Verdict(Successful[i]).severity)

RECURSIVE SumConfidence(_)
SumConfidence(i) ==
    IF i = 0 THEN 0
    ELSE Verdict(Successful[i]).confidence_score + SumConfidence(i - 1)

\* C7: the consensus confidence is the mean of the combined verdicts'
\* confidences truncated to an integer; when every input is in 0..100 it lies
\* in 0..100, between the least and the greatest input.
C7_MeanConfidence ==
    (IsCombined /\ NSuccessful >= 1)
    => /\ last.result.confidence_score = TruncDiv(SumConfidence(NSuccessful), NSuccessful)
       /\ (\A i \in 1..NSuccessful :
              Verdict(Successful[i]).confidence_score \in 0..100)
          => /\ last.result.confidence_score \in 0..100
             /\ \E i \in 1..NSuccessful :
                   Verdict(Successful[i]).confidence_score <= last.result.confidence_score
             /\ \E i \in 1..NSuccessful :
                   Verdict(Successful[i]).confidence_score >= last.result.confidence_score

\* the distinct non-empty remediations of the input verdicts
InputRemediations ==
    { Verdict(Successful[i]).remediation : i \in 1..NSuccessful } \ {""}

\* the sequences that list every element of S exactly once
Arrangements(S) ==
    { seq \in [1..Cardinality(S) -> S] :
        \A i, j \in 1..Cardinality(S) : i # j => seq[i] # seq[j] }

\* C8: the consensus remediation is the distinct non-empty remediations of
\* the input verdicts, each exactly once, joined in some order, and nothing
\* else.
C8_RemediationDistinct ==
    IsCombined
    => \E seq \in Arrangements(InputRemediations) :
          last.result.remediation = Join(seq, " | ")

\* C8 witness: a consensus of two verdicts that give the same remediation,
\* which the result holds once.
C8_Witness ==
    /\ IsCombined
    /\ NSuccessful = 2
    /\ Verdict("claude").remediation = "rotate"
    /\ Verdict("gemini").remediation = "rotate"
    /\ last.result.remediation = "rotate"

\* C9: a result has the provider identifier 'combined' exactly when two or
\* more verdicts were combined, and then combined_from lists the provider of
\* each input verdict, in dispatch order.
C9_CombinedIffSeveralVerdicts ==
    Dispatched
    => /\ ProviderOf(last.result) = "combined" <=> NSuccessful >= 2
       /\ ProviderOf(last.result) = "combined"
          => last.result.ai_analysis.combined_from = Successful

\* the first registered provider in the fixed order
FirstRegistered == IF "claude" \in providers THEN "claude" ELSE "gemini"

\* C10: single-provider analysis whose selected provider is not registered
\* goes to the first registered provider (claude before gemini) and returns
\* that provider's verdict under that provider's identifier; with only gemini
\* registered, selecting claude yields gemini's verdict, not an error.
C10_SubstituteFirstRegistered ==
    (/\ Dispatched
     /\ last.provider # "both"
     /\ last.provider \notin providers
     /\ providers # {})
    => /\ last.invoked # <<>>
       /\ last.invoked[1] = FirstRegistered
       /\ Succeeds(FirstRegistered)
          => /\ last.result = Verdict(FirstRegistered)
             /\ ProviderOf(last.result) = FirstRegistered
             /\ ~HasErrorMarker(last.result)

\* C10 witness: claude selected with only gemini registered, and the result
\* is gemini's verdict.
C10_Witness ==
    /\ Dispatched
    /\ last.provider = "claude"
    /\ providers = {"gemini"}
    /\ Succeeds("gemini")
    /\ ProviderOf(last.result) = "gemini"
    /\ HasVerdictFields(last.result)

----------------------------------------------------------------------------
(* Properties of results *)

\* the result keeps every raw field of the finding it was asked about
KeepsRawFields(secret, r) ==
    \A k \in DOMAIN secret : k \in DOMAIN r /\ r[k] = secret[k]

----------------------------------------------------------------------------
(* Properties of analyze_batch *)

IsBatch == last.op = "analyze_batch"

\* the fields a finding is identified by: category, label, value, line number
IdentityFields == {"type", "description", "value", "line_number"}

\* C12: analyze_batch returns a sequence of the length of its input in which
\* element i carries the category, label, value and line number of input
\* finding i, with or without the cache, also when findings of the batch share
\* value and context.
C12_BatchKeepsIdentity ==
    IsBatch
    => /\ Len(last.results) = Len(last.secrets)
       /\ \A i \in 1..Len(last.secrets) :
             \A k \in IdentityFields : last.results[i][k] = last.secrets[i][k]

\* the cache key of finding i of the latest batch
BatchKey(i) == GetCacheKey(last.secrets[i], last.code_context)

\* the judgment of finding i of the latest batch fails at every registered provider
AllFailAt(i) ==
    \A p \in providers :
        \/ BuildAnalysisPromptRaises(last.secrets[i])
        \/ last.outcomes[i][p].kind = "fail"

\* what analyze returns for finding i of the latest batch when it is analyzed
\* alone, by a manager with the same registry
Alone(i) ==
    AnalyzeSecret(providers, {}, last.time, last.secrets[i], last.code_context,
                  last.provider, last.use_cache, last.outcomes[i],
                  <<"rotate", "revoke">>)

\* C13: in analyze_batch, a finding that is dispatched and whose judgment
\* fails at every registered provider yields an error-marked element at its
\* position, and every later finding whose cache key differs from it (and from
\* every other finding before it) is dispatched to the providers and gets the
\* result it gets when analyzed alone.
C13_BatchFailureIsolated ==
    (IsBatch /\ providers # {})
    => \A i \in 1..Len(last.secrets) :
          (~last.hits[i] /\ AllFailAt(i))
          => /\ HasErrorMarker(last.results[i])
             /\ \A j \in (i + 1)..Len(last.secrets) :
                   (\A m \in 1..(j - 1) : BatchKey(m) # BatchKey(j))
                   => /\ last.invoked[j] # <<>>
                      /\ last.results[j] = Alone(j).result

----------------------------------------------------------------------------
(* Shape of a result *)

ErrorFlag(r) == Get(r, "ai_error", FALSE)

\* C14: every result of analyze carries either an error marker or one final
\* verdict, never both: a result with ai_error set has an error message and no
\* verdict field; a result with a verdict field has all of them, one provider
\* identifier (a provider's id or 'combined') and no error marker.
C14_ErrorXorVerdict ==
    IsCall
    => LET r == last.result IN
       /\ ErrorFlag(r) # HasVerdictFields(r)
       /\ ErrorFlag(r) => HasErrorMarker(r) /\ ~HasVerdictFields(r)
       /\ HasVerdictFields(r)
          => /\ VerdictFields \subseteq DOMAIN r
             /\ ProviderOf(r) \in ProviderIds \cup {"combined"}
             /\ ~ErrorFlag(r)
             /\ ~HasErrorMarker(r)

\* C14 witness: the selected provider's API call fails and the result is that
\* provider's error record, which names the provider and carries no verdict.
C14_Witness ==
    /\ Dispatched
    /\ last.provider = "gemini"
    /\ TransportFails("gemini")
    /\ ErrorFlag(last.result)
    /\ ProviderOf(last.result) = "gemini"
    /\ ~HasVerdictFields(last.result)

----------------------------------------------------------------------------
(* Properties of detect_secrets *)

IsDetect == last.op = "detect_secrets"

\* the lines of the scanned text
Lines == Split(last.content, Newline)

\* the position of a finding's category in the catalog, and of its matcher in
\* the category
CatIndex(f) == CHOOSE c \in 1..Len(Patterns) : Patterns[c].type = f.type
MatcherIndex(f) ==
    CHOOSE m \in 1..Len(Patterns[CatIndex(f)].list) :
        Patterns[CatIndex(f)].list[m].description = f.description

\* f does not come after g in (category, matcher, line) order
NotAfter(f, g) ==
    \/ CatIndex(f) < CatIndex(g)
    \/ /\ CatIndex(f) = CatIndex(g)
       /\ \/ MatcherIndex(f) < MatcherIndex(g)
          \/ /\ MatcherIndex(f) = MatcherIndex(g)
             /\ f.line_number <= g.line_number

\* the texts matcher m of category c matches on line l, by position
MatchTexts(c, m, l) ==
    LET pattern == Patterns[c].list[m].pattern
        found == FindIter(pattern, Lines[l], 1)
    IN [k \in 1..Len(found) |-> SubSeq(Lines[l], found[k], found[k] + Len(pattern) - 1)]

\* the values of the findings of matcher m of category c on line l, in the
\* order of the result
GroupValues(c, m, l) ==
    LET group == SelectSeq(last.findings,
                           LAMBDA f : /\ CatIndex(f) = c
                                      /\ MatcherIndex(f) = m
                                      /\ f.line_number = l)
    IN [k \in 1..Len(group) |-> group[k].value]

\* C16: the findings of detect are sorted by catalog category order, then by
\* matcher order within the category, then by ascending line number, then by
\* match position within the line; the sequence is thereby determined by the
\* text.
C16_DetectOrdered ==
    IsDetect
    => /\ \A i, j \in 1..Len(last.findings) :
             i < j => NotAfter(last.findings[i], last.findings[j])
       /\ \A c \in 1..Len(Patterns) : \A m \in 1..Len(Patterns[c].list) :
             \A l \in 1..Len(Lines) : GroupValues(c, m, l) = MatchTexts(c, m, l)

\* C16 witness: a finding on a later line comes before one on an earlier line
\* because its matcher comes first, and one matcher has two matches of
\* different text on one line.
C16_Witness ==
    /\ IsDetect
    /\ \E i, j \in 1..Len(last.findings) :
          i < j /\ last.findings[i].line_number > last.findings[j].line_number
    /\ \E c \in 1..Len(Patterns) : \E m \in 1..Len(Patterns[c].list) :
          \E l \in 1..Len(Lines) :
             /\ Len(GroupValues(c, m, l)) = 2
             /\ GroupValues(c, m, l)[1] # GroupValues(c, m, l)[2]

\* C17: every finding's line_number is the 1-based index L of the line that
\* contains the match, 1 <= L <= n, and its context is exactly the lines
\* max(1, L-2) .. min(n, L+2) of the text in order: it contains line L, has at
\* most 5 lines, and fewer than 5 only where clamped at an end of the text.
C17_LineAndContext ==
    IsDetect
    => \A i \in 1..Len(last.findings) :
          LET f == last.findings[i]
              L == f.line_number
              n == Len(Lines)
              lo == Max(1, L - 2)
              hi == Min(n, L + 2)
              ctx == Split(f.context, Newline)
          IN /\ L \in 1..n
             /\ \E pos \in 1..(Len(Lines[L]) - Len(f.value) + 1) :
                   SubSeq(Lines[L], pos, pos + Len(f.value) - 1) = f.value
             /\ f.context = JoinLines(SubSeq(Lines, lo, hi), Newline)
             /\ ctx = SubSeq(Lines, lo, hi)
             /\ ctx[L - lo + 1] = Lines[L]
             /\ Len(ctx) <= 5
             /\ Len(ctx) < 5 => (L - 2 < 1 \/ L + 2 > n)

\* C17 witness: a match on line 3 of a text of 6 lines, whose context is the
\* first 5 lines.
C17_Witness ==
    /\ IsDetect
    /\ Len(Lines) = 6
    /\ \E i \in 1..Len(last.findings) :
          /\ last.findings[i].line_number = 3
          /\ Split(last.findings[i].context, Newline) = SubSeq(Lines, 1, 5)

\* every (category, matcher, line, match) of the text
MatchSet ==
    UNION { UNION { UNION { { <<c, m, l, k>> : k \in 1..Len(MatchTexts(c, m, l)) } :
                            l \in 1..Len(Lines) } :
                    m \in 1..Len(Patterns[c].list) } :
            c \in 1..Len(Patterns) }

\* C18: detect emits exactly one finding per (matcher, line, match): the
\* number of findings is the number of matches of all matchers on all lines,
\* and a text matched on a line by k matches of the catalog yields k findings
\* with that value and line.
C18_NoDeduplication ==
    IsDetect
    => /\ Len(last.findings) = Cardinality(MatchSet)
       /\ \A t \in MatchSet :
             LET v == MatchTexts(t[1], t[2], t[3])[t[4]] IN
             Cardinality({ i \in 1..Len(last.findings) :
                             /\ last.findings[i].value = v
                             /\ last.findings[i].line_number = t[3] })
             = Cardinality({ u \in MatchSet :
                               /\ u[3] = t[3]
                               /\ MatchTexts(u[1], u[2], u[3])[u[4]] = v })

\* C18 witness: one text on one line is a finding of two categories.
C18_Witness ==
    /\ IsDetect
    /\ \E i, j \in 1..Len(last.findings) :
          /\ last.findings[i].type # last.findings[j].type
          /\ last.findings[i].value = last.findings[j].value
          /\ last.findings[i].line_number = last.findings[j].line_number

----------------------------------------------------------------------------
(* Properties of construction *)

\* the configuration's section of provider p, and whether it enables p
SectionOf(p) == IF p \in DOMAIN last.config THEN last.config[p] ELSE EmptyDict
EnabledInConfig(p) ==
    "enabled" \notin DOMAIN SectionOf(p) \/ SectionOf(p).enabled

\* the credential of provider p is set in the environment
CredentialOf(p) ==
    IF p = "claude" THEN last.env.ANTHROPIC_API_KEY ELSE last.env.GOOGLE_API_KEY
HasCredential(p) == CredentialOf(p) \notin {NoneValue, ""}

\* C19: construction is fail-soft per provider: a provider disabled in the
\* configuration, or whose construction fails for want of a credential, is
\* absent from the registry; a provider that is enabled and whose own
\* construction succeeds is registered whatever happens to the other; and the
\* manager is constructed in every case, also with an empty registry.
C19_ConstructionFailSoft ==
    /\ last.op = "config" => ENABLED Construct
    /\ last.op = "constructed"
       => \A p \in ProviderIds :
             p \in providers <=> (EnabledInConfig(p) /\ HasCredential(p))

\* C19 witness: claude is enabled and its construction fails on an empty
\* credential; the manager is constructed with gemini alone.
C19_Witness ==
    /\ last.op = "constructed"
    /\ EnabledInConfig("claude")
    /\ last.env.ANTHROPIC_API_KEY = ""
    /\ providers = {"gemini"}

----------------------------------------------------------------------------
(* Range of a verdict *)

SpecSeverities == {"Critical", "High", "Medium", "Low", "Unknown"}

\* C21: every verdict attached to an enriched finding, of one provider or of
\* the consensus, has a severity among Critical, High, Medium, Low, Unknown and
\* an integer confidence in 0..100, whatever payload the provider returned.
C21_VerdictInRange ==
    (IsCall /\ HasVerdictFields(last.result))
    => /\ last.result.severity \in SpecSeverities
       /\ last.result.confidence_score \in 0..100

----------------------------------------------------------------------------
(* Properties of the cache *)

\* the step is a call of analyze_secret
AnalyzeStep == calls' = calls + 1 /\ last'.op = "analyze_secret"

\* the cache key of the latest call
LastKey == GetCacheKey(last.secret, last.code_context)

C22_LookupStep ==
    (AnalyzeStep /\ last'.use_cache /\ HasKey(cache, LastKey'))
    => LET e == Entry(cache, LastKey') IN
       /\ now - e.time < CacheTTL
          => /\ last'.hit
             /\ last'.result = e.result
             /\ last'.read = cache
             /\ cache' = cache
       /\ now - e.time >= CacheTTL
          => /\ ~last'.hit
             /\ last'.read = cache \ {e}

\* C22: a cache lookup returns the stored result and leaves the cache
\* unchanged when the entry's age is strictly less than the TTL; when the age
\* is equal to or greater than the TTL the lookup is a miss and that same read
\* removes the entry.
C22_CacheLookup == [][C22_LookupStep]_vars

\* C22 witness: a lookup found the entry of an earlier call expired, and the
\* cache it left holds no entry of that key.
C22_Witness ==
    /\ IsCall
    /\ last.use_cache
    /\ ~last.hit
    /\ \E h \in last.prev : ~h.cleared /\ last.time - h.time >= CacheTTL
    /\ ~HasKey(last.read, LastKey)
    /\ HasKey(cache, LastKey)

\* the step is a call of clear_cache
ClearStep == last'.op = "clear_cache" /\ cache' = {}

\* the step's call of analyze_secret read entry e through the cache and found
\* it expired
ReadsExpired(e) ==
    /\ AnalyzeStep
    /\ last'.use_cache
    /\ LastKey' = e.key
    /\ now - e.time >= CacheTTL

C23_RemovalStep ==
    \A e \in cache :
        /\ e \notin cache' => (ClearStep \/ ReadsExpired(e))
        /\ (AnalyzeStep /\ e \notin last'.read) => ReadsExpired(e)

\* C23: a cache entry is removed only by a cache-enabled analyze call that
\* reads that entry's own key after its TTL has elapsed, or by clear_cache; no
\* other operation and no read of a different key removes it, so an expired
\* entry that is never read again stays in the cache.
C23_RemovalOnlyByOwnReadOrClear == [][C23_RemovalStep]_vars

\* C23 witness: a cache-enabled call has just read one key while the entry of
\* another key, already expired at that time, is still in the cache.
C23_Witness ==
    /\ IsCall
    /\ last.use_cache
    /\ \E e \in cache :
          /\ e.key # LastKey
          /\ last.time - e.time >= CacheTTL
          /\ e \in last.read

\* every cached result is the result of the latest cache-enabled call of its
\* key
StoredByCachedCalls(c, h) ==
    \A e \in c : \E call \in h : call.key = e.key /\ call.result = e.result

C24_UncachedStep ==
    (AnalyzeStep /\ ~last'.use_cache)
    => /\ last'.read = cache
       /\ cache' = cache
       /\ ~last'.hit
       /\ providers # {} => last'.invoked # <<>>
       /\ StoredByCachedCalls(cache', hist')

\* C24: a call of analyze_secret with use_cache false neither reads nor writes
\* the cache: the provider is dispatched even when a fresh entry exists for the
\* key, and the result is not stored, so later cached calls do not return it.
C24_UncachedBypassesCache == [][C24_UncachedStep]_vars

\* C24 witness: an uncached call dispatched a provider although the cache
\* holds a fresh entry of its key, and its result is not that entry's.
C24_Witness ==
    /\ IsCall
    /\ ~last.use_cache
    /\ last.invoked # <<>>
    /\ \E e \in cache :
          /\ e.key = LastKey
          /\ last.time - e.time < CacheTTL
          /\ e.result # last.result

----------------------------------------------------------------------------
(* Properties of the two parsers together *)

\* C25: the two provider variants parse responses identically: for every
\* response text, fenced text and text with braces outside the fenced block
\* included, the parsed verdict is the one either variant produces.
C25_VariantsParseAlike ==
    last.op = "parse_response"
    => /\ last.result = ClaudeParseResponse(last.response_text)
       /\ last.result = GeminiParseResponse(last.response_text)

----------------------------------------------------------------------------
(* Properties of repeated calls *)

\* the step is a cache-enabled analyze_secret of the finding and context of
\* the cache-enabled analyze_secret before it (the clock may have advanced in
\* between), under another selector
OtherSelectorStep ==
    /\ IsCall
    /\ last.use_cache
    /\ AnalyzeStep
    /\ last'.use_cache
    /\ last'.secret = last.secret
    /\ last'.code_context = last.code_context
    /\ last'.provider # last.provider

C26_SelectorStep ==
    (OtherSelectorStep /\ now - Entry(cache, LastKey).time < CacheTTL)
    => /\ last'.result = last.result
       /\ ProviderOf(last'.result) = ProviderOf(last.result)
       /\ last'.invoked = <<>>

\* C26: cache hits are independent of the provider selector: after a
\* cache-enabled analyze of a finding and context under one selector, a
\* cache-enabled analyze of the same finding and context under another
\* selector, within the TTL of the entry, returns the first call's result with
\* the first call's provider identifier and invokes no provider.
C26_HitIgnoresSelector == [][C26_SelectorStep]_vars

\* C26 witness: a call that selects claude, with claude registered, is
\* answered with the combined verdict an earlier call under the selector both
\* had stored.
C26_Witness ==
    /\ Repeated
    /\ ~First.cleared
    /\ last.time > First.time
    /\ last.provider = "claude"
    /\ "claude" \in providers
    /\ last.hit
    /\ ProviderOf(First.result) = "combined"
    /\ ProviderOf(last.result) = "combined"

\* the step is a cache-enabled analyze_secret whose finding and context were
\* analyzed through the cache before, the cache not cleared since, and the
\* entry of its key is younger than the TTL
RepeatedWithinTTL ==
    /\ AnalyzeStep
    /\ Repeated'
    /\ ~First'.cleared
    /\ HasKey(cache, LastKey')
    /\ now - Entry(cache, LastKey').time < CacheTTL

C27_ErrorStep ==
    /\ (AnalyzeStep /\ last'.use_cache /\ HasErrorMarker(last'.result))
       => /\ HasKey(cache', LastKey')
          /\ Entry(cache', LastKey').result = last'.result
    /\ (RepeatedWithinTTL /\ HasErrorMarker(First'.result))
       => /\ last'.result = First'.result
          /\ HasErrorMarker(last'.result)
          /\ last'.invoked = <<>>

\* C27: error results are cached like verdicts: a cache-enabled analyze that
\* returns an error-marked finding leaves it in the cache, and after it a
\* cache-enabled analyze of the same finding and context within the TTL of the
\* entry returns that same error-marked result without invoking any provider,
\* even if a provider would now answer.
C27_ErrorsAreCached == [][C27_ErrorStep]_vars

\* C27 witness: the first call's provider failed and the error was stored; on
\* the later call the registered provider would answer, and is not asked.
C27_Witness ==
    /\ Repeated
    /\ ~First.cleared
    /\ last.time > First.time
    /\ First.invoked # <<>>
    /\ HasErrorMarker(First.result)
    /\ providers # {}
    /\ \A p \in providers : Succeeds(p)
    /\ last.hit
    /\ HasErrorMarker(last.result)

----------------------------------------------------------------------------
(* Properties of the dispatch as a whole *)

\* the sequence names no provider twice
NoRepeats(seq) == \A i, j \in DOMAIN seq : i # j => seq[i] # seq[j]

\* the registered providers in the fixed order, claude before gemini
RegisteredInOrder == SelectSeq(ProviderOrder, LAMBDA p : p \in providers)

\* the provider a single-provider call goes to first
ResolvedFirst == IF last.provider \in providers THEN last.provider ELSE FirstRegistered

----------------------------------------------------------------------------
(* Properties of the entry's timestamp *)

\* the step's call of analyze_secret looked entry e up by its key
Reads(e) == AnalyzeStep /\ last'.use_cache /\ LastKey' = e.key

C29_TimestampStep ==
    \A e \in cache :
        /\ (Reads(e) /\ now - e.time >= CacheTTL) => ~last'.hit
        /\ (Reads(e) /\ last'.hit) => e \in cache'
        /\ (\E f \in cache' : f.key = e.key /\ f.time # e.time)
           => (Reads(e) /\ ~last'.hit)

\* C29: cache expiry is measured from the time the entry was stored, not from
\* its last read: a hit leaves the entry's timestamp alone, an entry stored at
\* time t is a miss for every lookup at t + TTL or later whatever hits came in
\* between, and the timestamp changes only when a miss stores the key again.
C29_ExpiryFromStore == [][C29_TimestampStep]_vars

\* C29 witness: an entry was hit less than a TTL ago, and the latest lookup,
\* a TTL after the store, is a miss that stores the key again.
C29_Witness ==
    /\ Repeated
    /\ ~First.cleared
    /\ providers # {}
    /\ First.invoked = <<>>
    /\ last.time - First.time < CacheTTL
    /\ ~last.hit
    /\ Entry(cache, LastKey).time = last.time

----------------------------------------------------------------------------
(* Properties of the registry *)

C30_RegistryStep ==
    /\ providers' = providers
    /\ GetAvailableProviders(providers') = GetAvailableProviders(providers)
    /\ last'.op = "get_available_providers"
       => /\ { last'.result[i] : i \in DOMAIN last'.result } = providers
          /\ NoRepeats(last'.result)
          /\ \A i, j \in DOMAIN last'.result :
                (last'.result[i] = "claude" /\ last'.result[j] = "gemini") => i < j

\* C30: the provider registry is fixed at construction: whatever sequence of
\* analyze, analyze_batch, clear_cache and test_providers calls is made, and
\* whichever providers fail, get_available_providers keeps returning the
\* identifiers registered at construction, claude before gemini.
C30_RegistryFixed == [][C30_RegistryStep]_vars

\* C30 witness: after an analysis that ended in a provider's error record, a
\* connection test that both registered providers failed leaves both in the
\* registry, claude first.
C30_Witness ==
    /\ last.op = "test_providers"
    /\ providers = {"claude", "gemini"}
    /\ \A p \in providers : ~last.status[p]
    /\ \E h \in hist : HasErrorMarker(h.result) /\ h.invoked # <<>>
    /\ GetAvailableProviders(providers) = <<"claude", "gemini">>

====
